---- MODULE Spec2Model ----
(***************************************************************************)
(* Class Scheduling Dashboard (class_scheduler.py).                        *)
(*                                                                         *)
(* A Streamlit script: every script run draws 16 teacher buttons, a Plotly *)
(* layout of 16 markers, and a validation report of four rules, all from   *)
(* st.session_state.assignments.  A click on a button makes the next       *)
(* script run see that button as pressed; the run advances the slot's      *)
(* teacher and calls st.rerun(), which starts a fresh run with no button   *)
(* pressed.                                                                *)
(*                                                                         *)
(* Strings that the code indexes (class names) are sequences of            *)
(* characters; f-strings are tuples of their parts; the y coordinates      *)
(* 1 and 1.25 are kept in hundredths.  Python's 0-based indices are kept   *)
(* in the operators that compute with them and shifted by one only where   *)
(* a TLA+ sequence is read.                                                *)
(***************************************************************************)
EXTENDS Integers, Sequences, FiniteSets, TLC

\* ------------------------------------------------------------------ bounds
\* clicks allowed in a run that starts from a fresh session
MaxClicks == 4
\* clicks allowed in a run that starts from a snapshot of a session
SnapClicks == 1

\* --------------------------------------------------------------- constants
CLASSES ==
  << <<"Y","1","3","a">>, <<"Y","1","3","b">>, <<"Y","1","3","c">>,
     <<"Y","1","2","a">>, <<"Y","1","2","b">>, <<"Y","1","2","c">>,
     <<"Y","1","2","d">>, <<"Y","1","2","e">> >>

TEACHERS == <<"None", "CFE", "AHA", "TOB">>

TEACHER_COLORS ==
  [t \in {"None", "CFE", "AHA", "TOB"} |->
     CASE t = "None" -> "#CCCCCC"
       [] t = "CFE"  -> "#1E90FF"
       [] t = "AHA"  -> "#FF4500"
       [] t = "TOB"  -> "#32CD32"]

\* the two unit suffixes, in the order of the comprehension of line 11
UNITS == <<"Micro", "Macro">>

\* f"{cls}_{unit}"
Key(cls, unit) == <<cls, unit>>

Keys == {Key(CLASSES[i], UNITS[j]) : i \in 1..Len(CLASSES), j \in 1..Len(UNITS)}

TeacherSet == {TEACHERS[i] : i \in 1..Len(TEACHERS)}

\* an empty st.session_state
EmptySession == [n \in {} |-> n]

\* the value used for "no button clicked yet"
NoKey == <<>>

VARIABLES
  session_state,  \* st.session_state: a mapping from names to values
  pc,             \* "run": a script run is due; "idle": the page is drawn
  labels,         \* button labels on the page, Macro row then Micro row
  fig,            \* the Plotly trace on the page: x, y, color, text
  report,         \* the validation list on the page: <<icon, rule>> lines
  breakdown,      \* the "invalid class counts" section: <<teacher, count>>
  left,           \* clicks the run may still take
  lastKey,        \* history: key of the last button clicked
  streak,         \* history: consecutive clicks on lastKey
  streakStart     \* history: teacher of lastKey before the streak began

vars == <<session_state, pc, labels, fig, report, breakdown, left,
          lastKey, streak, streakStart>>

\* ------------------------------------------------------------ session state
\* variant: the assignments are created on every script run
InitSessionState_unguarded(ss) ==
  [n \in DOMAIN ss \cup {"assignments"} |->
     IF n = "assignments" THEN [k \in Keys |-> "None"] ELSE ss[n]]

\* lines 10-11: create the assignments only when the session has none
InitSessionState(ss) ==
  IF "assignments" \notin DOMAIN ss
    THEN [n \in DOMAIN ss \cup {"assignments"} |->
            IF n = "assignments" THEN [k \in Keys |-> "None"] ELSE ss[n]]
    ELSE ss

\* --------------------------------------------------------- teacher cycling
\* TEACHERS.index(t), 0-based
RECURSIVE IndexFrom(_, _)
IndexFrom(t, i) == IF TEACHERS[i + 1] = t THEN i ELSE IndexFrom(t, i + 1)

TeacherIndex(t) == IndexFrom(t, 0)

\* variant: the index stops at the last teacher instead of wrapping
new_teacher_saturating(t) ==
  TEACHERS[(IF TeacherIndex(t) + 1 < Len(TEACHERS)
              THEN TeacherIndex(t) + 1 ELSE TeacherIndex(t)) + 1]

\* line 27: TEACHERS[(TEACHERS.index(current_teacher) + 1) % len(TEACHERS)]
new_teacher(t) ==
  TEACHERS[((TeacherIndex(t) + 1) % Len(TEACHERS)) + 1]

\* line 23: f"{cls} {unit_suffix} ({current_teacher})"
button_label(cls, unit_suffix, a) == <<cls, unit_suffix, a[Key(cls, unit_suffix)]>>

\* lines 18-29 with no button pressed: the labels of one row
render_teacher_buttons(unit_suffix, a) ==
  [i \in 1..Len(CLASSES) |-> button_label(CLASSES[i], unit_suffix, a)]

\* ------------------------------------------------------------------- rules
\* variant: only the Micro unit of each class is looked at
rule_all_units_assigned_micro(a) ==
  \A i \in 1..Len(CLASSES) : a[Key(CLASSES[i], "Micro")] # "None"

\* lines 41-43
rule_all_units_assigned(a) ==
  \A i \in 1..Len(CLASSES) :
     a[Key(CLASSES[i], "Micro")] # "None" /\ a[Key(CLASSES[i], "Macro")] # "None"

\* variant: a class with an unassigned unit is not compared
rule_different_teachers_in_class_assigned(a) ==
  \A i \in 1..Len(CLASSES) :
     \/ a[Key(CLASSES[i], "Micro")] = "None"
     \/ a[Key(CLASSES[i], "Macro")] = "None"
     \/ a[Key(CLASSES[i], "Micro")] # a[Key(CLASSES[i], "Macro")]

\* lines 45-47
rule_different_teachers_in_class(a) ==
  \A i \in 1..Len(CLASSES) :
     a[Key(CLASSES[i], "Micro")] # a[Key(CLASSES[i], "Macro")]

\* lines 51-54: teacher_class_counts after the first n classes of the loop
RECURSIVE teacher_class_counts(_, _)
teacher_class_counts(a, n) ==
  IF n = 0 THEN [t \in TeacherSet |-> 0]
  ELSE LET prev  == teacher_class_counts(a, n - 1)
           micro == a[Key(CLASSES[n], "Micro")]
           step1 == [prev EXCEPT ![micro] = @ + 1]
           macro == a[Key(CLASSES[n], "Macro")]
       IN  [step1 EXCEPT ![macro] = @ + 1]

\* variant: the lower limit is off by one
InvalidCount_below6(count) == count <= 5 \/ count > 6

\* line 55: the filter of the dict comprehension
InvalidCount(count) == count < 5 \/ count > 6

\* variant: "None" is not reported
rule_teacher_class_count_staff(a) ==
  LET counts == teacher_class_counts(a, Len(CLASSES))
  IN  [t \in {u \in TeacherSet \ {"None"} : InvalidCount(counts[u])} |-> counts[t]]

\* lines 49-56: the dict of teachers whose count is invalid
rule_teacher_class_count(a) ==
  LET counts == teacher_class_counts(a, Len(CLASSES))
  IN  [t \in {u \in TeacherSet : InvalidCount(counts[u])} |-> counts[t]]

\* line 64-65: the first element of the pair added to the set is cls[0]
CombinationTag(cls) == cls[0 + 1]

\* lines 60-65: teacher_class_combinations after the loop
teacher_class_combinations(a) ==
  [t \in TeacherSet |->
     {<<CombinationTag(CLASSES[i]), "Micro">> :
          i \in {j \in 1..Len(CLASSES) : a[Key(CLASSES[j], "Micro")] = t}}
     \cup
     {<<CombinationTag(CLASSES[i]), "Macro">> :
          i \in {j \in 1..Len(CLASSES) : a[Key(CLASSES[j], "Macro")] = t}}]

\* lines 58-67
rule_no_teacher_in_all_combinations(a) ==
  \A t \in TeacherSet : Cardinality(teacher_class_combinations(a)[t]) < 4

\* the four rule descriptions, in the order of the dict of lines 33-38
RuleNames ==
  << "All units in all classes have an assigned teacher",
     "Every class has a different teacher across Micro and Macro",
     "Every teacher has 5 or 6 classes",
     "No teacher has a class in all four combinations (Y12 + Y13, Macro and Micro)" >>

\* Python truth value of a bool
TruthOfBool(b) == b

\* Python truth value of a dict: true iff it has an entry
TruthOfDict(d) == DOMAIN d # {}

\* line 172: "OK" stands for the check mark, "X" for the cross
Icon(truth) == IF truth THEN "OK" ELSE "X"

\* lines 31-39: the values of the dict, in the order of RuleNames
check_rules(a) ==
  << rule_all_units_assigned(a),
     rule_different_teachers_in_class(a),
     rule_teacher_class_count(a),
     rule_no_teacher_in_all_combinations(a) >>

\* lines 169-173: one line per rule; `if is_valid` takes the truth value of
\* a bool for rules 1, 2 and 4 and of a dict for rule 3
RenderRules(a) ==
  LET rules == check_rules(a)
  IN  << <<Icon(TruthOfBool(rules[1])), RuleNames[1]>>,
         <<Icon(TruthOfBool(rules[2])), RuleNames[2]>>,
         <<Icon(TruthOfDict(rules[3])), RuleNames[3]>>,
         <<Icon(TruthOfBool(rules[4])), RuleNames[4]>> >>

\* the entries of a dict keyed by teachers, in insertion (TEACHERS) order
RECURSIVE ItemsFrom(_, _)
ItemsFrom(d, i) ==
  IF i > Len(TEACHERS) THEN <<>>
  ELSE IF TEACHERS[i] \in DOMAIN d
         THEN <<<<TEACHERS[i], d[TEACHERS[i]]>>>> \o ItemsFrom(d, i + 1)
         ELSE ItemsFrom(d, i + 1)

\* lines 175-179: one line per invalid teacher, none when the dict is empty
RenderBreakdown(a) ==
  LET invalid_teachers == rule_teacher_class_count(a)
  IN  IF TruthOfDict(invalid_teachers) THEN ItemsFrom(invalid_teachers, 1) ELSE <<>>

\* ------------------------------------------------------------------ layout
\* variant: both markers of a class take the color of the Micro teacher
marker_colors_micro(a) ==
  [n \in 1..(2 * Len(CLASSES)) |->
     TEACHER_COLORS[a[Key(CLASSES[((n - 1) \div 2) + 1], "Micro")]]]

\* lines 72-78: the lists after the loop; marker n (0-based) is at n + 1
marker_colors(a) ==
  [n \in 1..(2 * Len(CLASSES)) |->
     LET i == (n - 1) \div 2
     IN  IF (n - 1) % 2 = 0
           THEN TEACHER_COLORS[a[Key(CLASSES[i + 1], "Micro")]]
           ELSE TEACHER_COLORS[a[Key(CLASSES[i + 1], "Macro")]]]

\* line 75
x_vals == [n \in 1..(2 * Len(CLASSES)) |-> (n - 1) \div 2]

\* line 76, in hundredths
y_vals == [n \in 1..(2 * Len(CLASSES)) |-> IF (n - 1) % 2 = 0 THEN 100 ELSE 125]

\* line 93: the text list, i ranging over range(len(x_vals))
text ==
  [n \in 1..Len(x_vals) |->
     LET i == n - 1
     IN  IF i % 2 = 0
           THEN <<CLASSES[(i % Len(CLASSES)) + 1], "Micro">>
           ELSE <<CLASSES[(i \div 2) + 1], "Macro">>]

\* lines 68-95: the scatter trace
create_class_layout(a) ==
  [x |-> x_vals, y |-> y_vals, color |-> marker_colors(a), text |-> text]

\* line 94: "%{text}<br>Teacher: %{marker.color}" for marker n
Hover(f, n) == <<f.text[n], "Teacher: ", f.color[n]>>

\* lines 102-103: the x axis tick text of position x
XTick(x) == CLASSES[x + 1]

\* lines 110-111: the y axis tick text of position y
YTick(y) == IF y = 100 THEN "Micro" ELSE "Macro"

\* ----------------------------------------------------------------- actions
Assignments == session_state.assignments

NoFig == [x |-> <<>>, y |-> <<>>, color |-> <<>>, text |-> <<>>]

\* a session at its start: the store of lines 10-11, nothing drawn yet
Init ==
  /\ session_state = InitSessionState(EmptySession)
  /\ pc = "run"
  /\ labels = <<>>
  /\ fig = NoFig
  /\ report = <<>>
  /\ breakdown = <<>>
  /\ left = MaxClicks
  /\ lastKey = NoKey
  /\ streak = 0
  /\ streakStart = "None"

\* A click on the button of (cls, unit_suffix): the script run in which
\* st.button returns True for that key (lines 26-29).  The buttons drawn
\* before it in this run carry the labels they already had; the store is
\* written once and st.rerun() ends the run, leaving the next run due.
Click(cls, unit_suffix) ==
  LET unit == Key(cls, unit_suffix)
      ss == InitSessionState(session_state)
      current_teacher == ss.assignments[unit]
  IN  /\ pc = "idle"
      /\ left > 0
      /\ session_state' =
           [ss EXCEPT !.assignments = [@ EXCEPT ![unit] = new_teacher(current_teacher)]]
      /\ pc' = "run"
      /\ left' = left - 1
      /\ lastKey' = unit
      /\ streak' = IF lastKey = unit THEN streak + 1 ELSE 1
      /\ streakStart' = IF lastKey = unit THEN streakStart ELSE current_teacher
      /\ UNCHANGED <<labels, fig, report, breakdown>>

\* A script run with no button pressed (the first run of a session, the
\* run started by st.rerun(), or a rerun asked for by the user): lines
\* 10-11, 155-179.
ScriptRun ==
  LET ss == InitSessionState(session_state)
      a == ss.assignments
  IN  /\ pc = "run"
      /\ session_state' = ss
      /\ labels' = render_teacher_buttons("Macro", a) \o render_teacher_buttons("Micro", a)
      /\ fig' = create_class_layout(a)
      /\ report' = RenderRules(a)
      /\ breakdown' = RenderBreakdown(a)
      /\ pc' = "idle"
      /\ UNCHANGED <<left, lastKey, streak, streakStart>>

\* The user asks for a rerun of the drawn page without clicking a button.
Rerun ==
  /\ pc = "idle"
  /\ pc' = "run"
  /\ UNCHANGED <<session_state, labels, fig, report, breakdown, left,
                 lastKey, streak, streakStart>>

Next ==
  \/ \E i \in 1..Len(CLASSES), j \in 1..Len(UNITS) : Click(CLASSES[i], UNITS[j])
  \/ ScriptRun
  \/ Rerun

Spec == Init /\ [][Next]_vars

\* ------------------------------------------------- runs from a snapshot
\* the year group of a class: the first three characters of its name
YearGroup(cls) == SubSeq(cls, 1, 3)

Blocks == {<<YearGroup(CLASSES[i]), UNITS[j]>> : i \in 1..Len(CLASSES), j \in 1..Len(UNITS)}

\* the store in which every slot of a (year group, unit) block holds the
\* teacher b gives the block; clicks reach every such store
BlockStore(b) == [k \in Keys |-> b[<<YearGroup(k[1]), k[2]>>]]

\* a session some clicks after its start, about to be drawn
InitSnap ==
  /\ \E b \in [Blocks -> TeacherSet] :
        session_state = [InitSessionState(EmptySession) EXCEPT !.assignments = BlockStore(b)]
  /\ pc = "run"
  /\ labels = <<>>
  /\ fig = NoFig
  /\ report = <<>>
  /\ breakdown = <<>>
  /\ left = SnapClicks
  /\ lastKey = NoKey
  /\ streak = 0
  /\ streakStart = "None"

SpecSnap == InitSnap /\ [][Next]_vars

\* ================================================================= claims
\* number of slots of store a that hold teacher t
SlotCount(a, t) == Cardinality({k \in Keys : a[k] = t})

\* teacher t holds a slot of every (year group, unit) block in store a
CoversAllBlocks(a, t) ==
  \A b \in Blocks : \E k \in Keys : <<YearGroup(k[1]), k[2]>> = b /\ a[k] = t

\* the page has been drawn from the current store and waits for input
Drawn == pc = "idle"

\* the teachers that are members of staff (every identifier but "None")
Staff == TeacherSet \ {"None"}

\* C1: the no-all-combinations rule is false in every state where some
\* teacher holds a Y13-Micro, a Y13-Macro, a Y12-Micro and a Y12-Macro slot,
\* and true again once no teacher covers all four combinations.  The
\* statement is taken for the members of staff only, so that it does not
\* rest on reading Unassigned as a teacher.
C1_NoAllCombinations ==
  rule_no_teacher_in_all_combinations(Assignments)
    = ~ \E t \in Staff : CoversAllBlocks(Assignments, t)

\* C2: on the drawn page the indicator of every rule agrees with the rule's
\* result; for rule 3 the pass indicator is shown iff the map returned by
\* rule_teacher_class_count is empty.
C2_IndicatorsAgree ==
  Drawn =>
    /\ Len(report) = 4
    /\ (report[1][1] = "OK") = rule_all_units_assigned(Assignments)
    /\ (report[2][1] = "OK") = rule_different_teachers_in_class(Assignments)
    /\ (report[3][1] = "OK") = (DOMAIN rule_teacher_class_count(Assignments) = {})
    /\ (report[3][1] = "X") = (DOMAIN rule_teacher_class_count(Assignments) # {})
    /\ (report[4][1] = "OK") = rule_no_teacher_in_all_combinations(Assignments)

\* C9: on the drawn page the hover text of each of the 16 markers names the
\* class and the unit of the slot the marker's position stands for, and
\* identifies the teacher the store holds for that slot.
C9_HoverNamesSlot ==
  Drawn =>
    /\ Len(fig.x) = 16
    /\ \A n \in 1..Len(fig.x) :
         LET cls == XTick(fig.x[n])
             unit == YTick(fig.y[n])
         IN  /\ Hover(fig, n)[1] = <<cls, unit>>
             /\ \A t \in TeacherSet :
                  (Hover(fig, n)[3] = TEACHER_COLORS[t]) = (Assignments[Key(cls, unit)] = t)

\* the teacher after t in the fixed order, written out as a table
After(t) ==
  CASE t = "None" -> "CFE"
    [] t = "CFE"  -> "AHA"
    [] t = "AHA"  -> "TOB"
    [] t = "TOB"  -> "None"

RECURSIVE AfterN(_, _)
AfterN(t, n) == IF n = 0 THEN t ELSE AfterN(After(t), n - 1)

\* C3: after n clicks in a row on one button the slot holds the n-th
\* successor of the teacher it held before, in the order None, CFE, AHA,
\* TOB, None; so one click gives the next teacher, three clicks from
\* Unassigned give TOB, and four clicks give back the teacher held before.
C3_TeacherCycle ==
  streak > 0 =>
    /\ lastKey \in Keys
    /\ Assignments[lastKey] = AfterN(streakStart, streak)
    /\ (streak = 1 => Assignments[lastKey] = After(streakStart))
    /\ (streak = 3 /\ streakStart = "None" => Assignments[lastKey] = "TOB")
    /\ (streak = 4 => Assignments[lastKey] = streakStart)

\* four clicks in a row on one button, and the page drawn again
C3_Witness ==
  /\ Drawn
  /\ streak = 4
  /\ Assignments[lastKey] = "None"
  /\ labels # <<>>

\* C4: a step that takes a click changes the store in the clicked slot and
\* in no other; a step that takes no click (a script run, a rerun) leaves
\* the store as it is; the keys are always the 16 (class, unit) keys, each
\* holding one of None, CFE, AHA, TOB.
C4_OneClickOneMutation ==
  [][ /\ DOMAIN session_state'.assignments = Keys
      /\ Cardinality(Keys) = 16
      /\ \A k \in Keys : session_state'.assignments[k] \in TeacherSet
      /\ (left' = left => session_state'.assignments = session_state.assignments)
      /\ (left' # left =>
            /\ lastKey' \in Keys
            /\ session_state'.assignments[lastKey'] # session_state.assignments[lastKey']
            /\ \A j \in Keys \ {lastKey'} :
                 session_state'.assignments[j] = session_state.assignments[j])
    ]_vars

\* one click taken and its rerun drawn: one slot differs from the start
C4_Witness ==
  /\ Drawn
  /\ left = MaxClicks - 1
  /\ Cardinality({k \in Keys : Assignments[k] # "None"}) = 1
  /\ Assignments[lastKey] = "CFE"

\* C5: on the drawn page every slot has a marker, and the color of every
\* marker is TEACHER_COLORS of the teacher the store holds for the slot at
\* the marker's position.
C5_LayoutNotStale ==
  Drawn =>
    /\ \A k \in Keys : \E n \in 1..Len(fig.x) : Key(XTick(fig.x[n]), YTick(fig.y[n])) = k
    /\ \A n \in 1..Len(fig.x) :
         fig.color[n] = TEACHER_COLORS[Assignments[Key(XTick(fig.x[n]), YTick(fig.y[n]))]]

\* a click on a Macro button has been drawn: its marker is blue, the rest gray
C5_Witness ==
  /\ Drawn
  /\ lastKey \in Keys
  /\ lastKey[2] = "Macro"
  /\ Assignments[lastKey] = "CFE"
  /\ \E n \in 1..Len(fig.color) :
       /\ fig.color[n] = "#1E90FF"
       /\ \A m \in 1..Len(fig.color) : m # n => fig.color[m] = "#CCCCCC"

\* C6: the result of the load-balance rule is the map teacher -> number of
\* slots holding the teacher, restricted to the identifiers (None included)
\* whose number is below 5 or above 6; 16 slots on one teacher report it
\* with 16, an 8/8 split reports both with 8 and the others with 0.
C6_LoadBalance ==
  LET a == Assignments
      r == rule_teacher_class_count(a)
  IN  /\ DOMAIN r = {t \in TeacherSet : SlotCount(a, t) < 5 \/ SlotCount(a, t) > 6}
      /\ \A t \in DOMAIN r : r[t] = SlotCount(a, t)
      /\ \A t \in TeacherSet :
           (\A k \in Keys : a[k] = t) =>
              r = [u \in TeacherSet |-> IF u = t THEN 16 ELSE 0]
      /\ \A t, u \in TeacherSet :
           (t # u /\ SlotCount(a, t) = 8 /\ SlotCount(a, u) = 8) =>
              r = [v \in TeacherSet |-> IF v \in {t, u} THEN 8 ELSE 0]
      /\ (Drawn => breakdown = ItemsFrom(r, 1))

\* the page drawn for an 8/8 split between CFE and AHA
C6_Witness ==
  /\ Drawn
  /\ breakdown = <<<<"None", 0>>, <<"CFE", 8>>, <<"AHA", 8>>, <<"TOB", 0>>>>

\* C7: the distinct-within-class rule is true iff no class has the same
\* value in its Micro and its Macro slot, Unassigned counting as a value;
\* it is false when some class has both units Unassigned (as in the store
\* of a fresh session) or the same teacher in both units.
C7_DistinctWithinClass ==
  LET a == Assignments
      Same == {p \in Keys \X Keys : p[1][1] = p[2][1] /\ p[1][2] # p[2][2] /\ a[p[1]] = a[p[2]]}
  IN  /\ rule_different_teachers_in_class(a) = (Same = {})
      /\ ((\E p \in Same : a[p[1]] = "None") => ~rule_different_teachers_in_class(a))
      /\ ((\E p \in Same : a[p[1]] # "None") => ~rule_different_teachers_in_class(a))
      /\ ((\A k \in Keys : a[k] = "None") => ~rule_different_teachers_in_class(a))
      /\ (Drawn => (report[2][1] = "OK") = (Same = {}))

\* the page drawn with a cross on rule 2 when the only class with equal
\* units is one whose units are both Unassigned
C7_Witness ==
  /\ Drawn
  /\ report[2][1] = "X"
  /\ \E i \in 1..Len(CLASSES) :
       /\ Assignments[Key(CLASSES[i], "Micro")] = "None"
       /\ Assignments[Key(CLASSES[i], "Macro")] = "None"
       /\ \A j \in 1..Len(CLASSES) : j # i =>
            Assignments[Key(CLASSES[j], "Micro")] # Assignments[Key(CLASSES[j], "Macro")]

\* C8: the all-assigned rule is false on the store of a fresh session and
\* is true iff all 16 slots hold a teacher other than Unassigned.
C8_AllAssigned ==
  LET a == Assignments
  IN  /\ rule_all_units_assigned(a) = (\A k \in Keys : a[k] # "None")
      /\ ((\A k \in Keys : a[k] = "None") => ~rule_all_units_assigned(a))
      /\ (Drawn => (report[1][1] = "OK") = (SlotCount(a, "None") = 0))

\* the rule has turned from true to false: a click on a TOB slot of a
\* complete schedule put it back to Unassigned, and the page shows a cross
C8_Witness ==
  /\ Drawn
  /\ streak = 1
  /\ streakStart = "TOB"
  /\ Assignments[lastKey] = "None"
  /\ \A k \in Keys \ {lastKey} : Assignments[k] # "None"
  /\ report[1][1] = "X"

\* C10: the slot counts of the four identifiers sum to 16, so the
\* load-balance rule never returns an empty map, the breakdown is on every
\* drawn page, and in no state do all four rules pass.
C10_NeverAllPass ==
  LET a == Assignments
      r == rule_teacher_class_count(a)
      counts == teacher_class_counts(a, Len(CLASSES))
  IN  /\ counts["None"] + counts["CFE"] + counts["AHA"] + counts["TOB"] = 16
      /\ DOMAIN r # {}
      /\ (Drawn => breakdown # <<>>)
      /\ ~ ( /\ rule_all_units_assigned(a)
             /\ rule_different_teachers_in_class(a)
             /\ DOMAIN r = {}
             /\ rule_no_teacher_in_all_combinations(a) )
      /\ (rule_all_units_assigned(a) => ("None" \in DOMAIN r /\ r["None"] = 0))

\* the page drawn for a complete schedule with loads 5, 5 and 6: the
\* breakdown still lists None with 0 classes
C10_Witness ==
  /\ Drawn
  /\ rule_all_units_assigned(Assignments)
  /\ breakdown = <<<<"None", 0>>>>

====
